---- MODULE Spec2Model ----
(***************************************************************************)
(* Model of mnist/main.py: the epoch loop of __main__, train() and test(). *)
(* The network, the optimizer's update rule and the tensors are external;  *)
(* what a forward pass returns is an input of the step that calls it.      *)
(* Floating-point values (learning rate, averages, percentages) are kept   *)
(* as exact fractions [num, den].                                          *)
(***************************************************************************)
EXTENDS Integers, Sequences, FiniteSets

\* ---------------------------------------------------------------- bounds
MaxEpochs == 2          \* args.epochs ranges over 0..MaxEpochs
MaxBatch == 2           \* args.batch_size, args.test_batch_size in 1..MaxBatch
MaxLogInterval == 2     \* args.log_interval in 0..MaxLogInterval
MaxTrain == 3           \* len(train_dataset) in 1..MaxTrain
MaxTest == 3            \* len(test_dataset) in 1..MaxTest
MaxLoss == 1            \* F.nll_loss(..., reduction='sum') of a batch in 0..MaxLoss

\* ------------------------------------------------------------- fractions
Frac(n, d) == [num |-> n, den |-> d]

FracEq(a, b) == a.num * b.den = b.num * a.den

FracMul(a, b) == Frac(a.num * b.num, a.den * b.den)

RECURSIVE FracPow(_, _)
FracPow(a, k) == IF k = 0 THEN Frac(1, 1) ELSE FracMul(a, FracPow(a, k - 1))

\* ------------------------------------------------------------ arguments
\* --lr values tried (default 1.0)
LrChoices == {Frac(1, 1), Frac(1, 2)}

\* --gamma values tried (default 0.7)
GammaChoices == {Frac(7, 10), Frac(1, 1)}

\* the command lines of the driver runs: every training-side option varies,
\* the evaluation split is one batch of one sample
DriverArgs ==
    [batch_size : 1..MaxBatch,
     test_batch_size : {1},
     epochs : 0..MaxEpochs,
     lr : LrChoices,
     gamma : GammaChoices,
     dry_run : BOOLEAN,
     log_interval : 0..MaxLogInterval,
     save_model : BOOLEAN]

\* the command lines of the evaluation runs: the evaluation-side options and
\* dry_run vary, the training pass has more than one batch to cut short
EvalArgs ==
    [batch_size : {MaxBatch},
     test_batch_size : 1..MaxBatch,
     epochs : 1..MaxEpochs,
     lr : {Frac(1, 1)},
     gamma : {Frac(7, 10)},
     dry_run : BOOLEAN,
     log_interval : {1},
     save_model : {FALSE}]

\* ---------------------------------------------------------- data loaders
\* DataLoader's own default for shuffle
DefaultShuffle == FALSE

CudaKwargs == [shuffle |-> TRUE]

TrainKwargs(a, cuda) ==
    [batch_size |-> a.batch_size,
     shuffle |-> IF cuda THEN CudaKwargs.shuffle ELSE DefaultShuffle]

TestKwargs(a, cuda) ==
    [batch_size |-> a.test_batch_size,
     shuffle |-> IF cuda THEN CudaKwargs.shuffle ELSE DefaultShuffle]

DataLoader(n, kw) == [n |-> n, batch_size |-> kw.batch_size, shuffle |-> kw.shuffle]

DatasetOrder(n) == [i \in 1..n |-> i]

Shuffles(n) == {s \in [1..n -> 1..n] : \A i, j \in 1..n : s[i] = s[j] => i = j}

\* iter(loader): the order in which one pass yields the samples
IterOrders(loader) ==
    IF loader.shuffle THEN Shuffles(loader.n) ELSE {DatasetOrder(loader.n)}

\* len(loader): number of batches, the last one possibly short
NumBatches(loader) == (loader.n + loader.batch_size - 1) \div loader.batch_size

Min(a, b) == IF a <= b THEN a ELSE b

\* the batch the iterator yields when p samples have been consumed
NextBatch(ord, p, bsz) == SubSeq(ord, p + 1, Min(p + bsz, Len(ord)))

\* ------------------------------------------------------------------ state
VARIABLES
    args,          \* parsed command line
    use_cuda,      \* not args.no_cuda and torch.cuda.is_available()
    train_loader,  \* DataLoader over the training split
    test_loader,   \* DataLoader over the evaluation split
    pc,            \* position of the program
    epoch,         \* loop variable of the epoch loop
    lr,            \* optimizer's current learning rate
    sched_steps,   \* number of scheduler.step() calls made
    order,         \* sample order of the running loader iterator
    pos,           \* samples the running iterator has yielded
    batch_idx,     \* batches the running train() loop has taken from enumerate
    opt_steps,     \* optimizer.step() calls of the current train() call
    step_lr,       \* learning rate the last optimizer.step() used
    prev_pos,      \* samples yielded before the batch processed last
    out,           \* what the last step printed
    test_loss,     \* test(): running loss sum
    correct,       \* test(): running count of correct predictions
    test_batches,  \* test(): batches processed by the current call
    seen,          \* sample -> times the current test() call evaluated it
    hits,          \* samples the current test() call predicted correctly
    saves,         \* torch.save calls made
    train_done,    \* train() calls returned
    test_done      \* test() calls returned

vars ==
    <<args, use_cuda, train_loader, test_loader, pc, epoch, lr, sched_steps,
      order, pos, batch_idx, opt_steps, step_lr, prev_pos, out, test_loss,
      correct, test_batches, seen, hits, saves, train_done, test_done>>

config == <<args, use_cuda, train_loader, test_loader>>

evalState == <<test_loss, correct, test_batches, seen, hits>>

NoOut == [type |-> "none"]

NoLr == Frac(0, 1)

\* ------------------------------------------------------- code of the loops
\* a scheduler whose step leaves the rate as it is
SchedulerStepNoDecay(cur, gamma) == cur

\* StepLR with step_size = 1: one step multiplies the rate by gamma
SchedulerStep(cur, gamma) == FracMul(cur, gamma)

\* range(1, args.epochs): the last epoch is not run
LoopStopsEarly(e, a) == e < a.epochs

\* range(1, args.epochs + 1)
LoopContinues(e, a) == e <= a.epochs

\* batch_idx % args.log_interval == 0
LogsAt(a, i) == i % a.log_interval = 0

\* the break taken one batch late: (batch_idx + 1) % args.log_interval == 0
BreaksAtNext(a, i) == (i + 1) % a.log_interval = 0 /\ a.dry_run

\* the break under `if args.dry_run`, nested in the logging branch
BreaksAt(a, i) == LogsAt(a, i) /\ a.dry_run

\* batch_idx * len(data)
LogSamples(i, data) == i * Len(data)

TrainLog(e, i, data, loader) ==
    [type |-> "train",
     epoch |-> e,
     samples |-> LogSamples(i, data),
     total |-> loader.n,
     pct |-> Frac(100 * i, NumBatches(loader))]

\* train()'s dry-run break copied into test()'s loop
TestBreaksOnDryRun(a) == a.dry_run

\* test()'s loop body has no break
TestBreaks(a) == FALSE

\* pred.eq(target) without view_as: a [B,1] tensor against a [B] tensor
\* broadcasts to B x B comparisons
CountCorrectBroadcast(eq) == Cardinality(eq) * Cardinality(eq)

\* pred.eq(target.view_as(pred)).sum().item(), eq the matching positions
CountCorrect(eq) == Cardinality(eq)

\* len(test_loader) * test_loader.batch_size
EvalDivisorByBatches(loader) == NumBatches(loader) * loader.batch_size

\* len(test_loader.dataset)
EvalDivisor(loader) == loader.n

TestSummary(loss, corr, loader) ==
    [type |-> "test",
     avg_loss |-> Frac(loss, EvalDivisor(loader)),
     correct |-> corr,
     total |-> loader.n,
     pct |-> Frac(100 * corr, EvalDivisor(loader))]

\* torch.save outside the `if`
AlwaysSave(a) == TRUE

\* if args.save_model
ShouldSave(a) == a.save_model

\* ------------------------------------------------------------------- Init
\* the state when line 74 is reached, for a command line of A and splits of
\* the sizes trainNs and testNs
Start(A, trainNs, testNs) ==
    /\ args \in A
    /\ use_cuda \in BOOLEAN
    /\ \E n \in trainNs : train_loader = DataLoader(n, TrainKwargs(args, use_cuda))
    /\ \E n \in testNs : test_loader = DataLoader(n, TestKwargs(args, use_cuda))
    /\ pc = "epoch_loop"
    /\ epoch = 1
    /\ lr = args.lr
    /\ sched_steps = 0
    /\ order = <<>>
    /\ pos = 0
    /\ batch_idx = 0
    /\ opt_steps = 0
    /\ step_lr = NoLr
    /\ prev_pos = 0
    /\ out = NoOut
    /\ test_loss = 0
    /\ correct = 0
    /\ test_batches = 0
    /\ seen = [s \in 1..test_loader.n |-> 0]
    /\ hits = {}
    /\ saves = 0
    /\ train_done = 0
    /\ test_done = 0

Init == Start(DriverArgs, 1..MaxTrain, {1})

EvalInit == Start(EvalArgs, {MaxTrain}, 1..MaxTest)

\* ---------------------------------------------------------------- actions
\* for epoch in range(1, args.epochs + 1): train(...) is entered,
\* model.train(), and the loop over train_loader starts
TrainStart ==
    /\ pc = "epoch_loop"
    /\ LoopContinues(epoch, args)
    /\ pc' = "train"
    /\ order' \in IterOrders(train_loader)
    /\ pos' = 0
    /\ batch_idx' = 0
    /\ opt_steps' = 0
    /\ prev_pos' = 0
    /\ out' = NoOut
    /\ UNCHANGED <<config, epoch, lr, sched_steps, step_lr, evalState, saves,
                   train_done, test_done>>

\* one iteration of train()'s loop: forward, loss, backward, optimizer.step,
\* then the logging branch and its dry-run break
TrainBatch ==
    /\ pc = "train"
    /\ pos < Len(order)
    /\ LET data == NextBatch(order, pos, train_loader.batch_size)
           i == batch_idx
       IN /\ opt_steps' = opt_steps + 1
          /\ step_lr' = lr
          /\ prev_pos' = pos
          /\ pos' = pos + Len(data)
          /\ batch_idx' = i + 1
          /\ IF args.log_interval = 0
             THEN \* ZeroDivisionError in batch_idx % args.log_interval
                  /\ pc' = "failed"
                  /\ out' = NoOut
                  /\ UNCHANGED train_done
             ELSE /\ out' = IF LogsAt(args, i)
                            THEN TrainLog(epoch, i, data, train_loader)
                            ELSE NoOut
                  /\ IF BreaksAt(args, i) \/ pos' = Len(order)
                     THEN pc' = "test_start" /\ train_done' = train_done + 1
                     ELSE pc' = "train" /\ UNCHANGED train_done
    /\ UNCHANGED <<config, epoch, lr, sched_steps, order, evalState, saves, test_done>>

\* test(...) is entered: model.eval(), the accumulators are zeroed and the
\* loop over test_loader starts
TestStart ==
    /\ pc = "test_start"
    /\ pc' = "test"
    /\ order' \in IterOrders(test_loader)
    /\ pos' = 0
    /\ prev_pos' = 0
    /\ test_loss' = 0
    /\ correct' = 0
    /\ test_batches' = 0
    /\ seen' = [s \in 1..test_loader.n |-> 0]
    /\ hits' = {}
    /\ out' = NoOut
    /\ UNCHANGED <<config, epoch, lr, sched_steps, batch_idx, opt_steps, step_lr,
                   saves, train_done, test_done>>

\* one iteration of test()'s loop; the batch loss and the positions whose
\* argmax equals the target are what the network returns
TestBatch ==
    /\ pc = "test"
    /\ pos < Len(order)
    /\ LET data == NextBatch(order, pos, test_loader.batch_size)
       IN \E loss \in 0..MaxLoss, eq \in SUBSET (1..Len(data)) :
            /\ test_loss' = test_loss + loss
            /\ correct' = correct + CountCorrect(eq)
            /\ test_batches' = test_batches + 1
            /\ seen' = [s \in DOMAIN seen |->
                          seen[s] + Cardinality({k \in 1..Len(data) : data[k] = s})]
            /\ hits' = hits \cup {data[k] : k \in eq}
            /\ prev_pos' = pos
            /\ pos' = pos + Len(data)
            /\ pc' = IF TestBreaks(args) \/ pos' = Len(order)
                     THEN "test_final" ELSE "test"
    /\ out' = NoOut
    /\ UNCHANGED <<config, epoch, lr, sched_steps, order, batch_idx, opt_steps,
                   step_lr, saves, train_done, test_done>>

\* test_loss /= len(test_loader.dataset); the summary line is printed
TestFinalize ==
    /\ pc = "test_final"
    /\ out' = TestSummary(test_loss, correct, test_loader)
    /\ test_done' = test_done + 1
    /\ pc' = "sched"
    /\ UNCHANGED <<config, epoch, lr, sched_steps, order, pos, batch_idx, opt_steps,
                   step_lr, prev_pos, evalState, saves, train_done>>

\* test() has returned and its frame is gone; scheduler.step(), then the
\* epoch loop advances
SchedStep ==
    /\ pc = "sched"
    /\ lr' = SchedulerStep(lr, args.gamma)
    /\ sched_steps' = sched_steps + 1
    /\ epoch' = epoch + 1
    /\ pc' = "epoch_loop"
    /\ out' = NoOut
    /\ order' = <<>>
    /\ pos' = 0
    /\ prev_pos' = 0
    /\ test_loss' = 0
    /\ correct' = 0
    /\ test_batches' = 0
    /\ seen' = [s \in DOMAIN seen |-> 0]
    /\ hits' = {}
    /\ UNCHANGED <<config, batch_idx, opt_steps, step_lr, saves, train_done,
                   test_done>>

\* the epoch loop is exhausted: if args.save_model: torch.save(...)
Finish ==
    /\ pc = "epoch_loop"
    /\ ~LoopContinues(epoch, args)
    /\ saves' = IF ShouldSave(args) THEN saves + 1 ELSE saves
    /\ pc' = "done"
    /\ out' = NoOut
    /\ UNCHANGED <<config, epoch, lr, sched_steps, order, pos, batch_idx, opt_steps,
                   step_lr, prev_pos, evalState, train_done, test_done>>

\* an exception raised by the library while a batch is computed ends the
\* run: the frames of the loops are unwound
Fail ==
    /\ pc \in {"train", "test"}
    /\ pos < Len(order)
    /\ pc' = "failed"
    /\ out' = NoOut
    /\ order' = <<>>
    /\ pos' = 0
    /\ prev_pos' = 0
    /\ test_loss' = 0
    /\ correct' = 0
    /\ test_batches' = 0
    /\ seen' = [s \in DOMAIN seen |-> 0]
    /\ hits' = {}
    /\ UNCHANGED <<config, epoch, lr, sched_steps, batch_idx, opt_steps, step_lr,
                   saves, train_done, test_done>>

Next ==
    \/ TrainStart
    \/ TrainBatch
    \/ TestStart
    \/ TestBatch
    \/ TestFinalize
    \/ SchedStep
    \/ Finish
    \/ Fail

Spec == Init /\ [][Next]_vars

EvalSpec == EvalInit /\ [][Next]_vars

\* the interpreter runs the program to its end or to an exception
FairSpec == Spec /\ WF_vars(Next)

\* ----------------------------------------------------------------- claims
\* learning rate epoch k is due: args.lr * args.gamma^(k-1)
RateOfEpoch(k) == FracMul(args.lr, FracPow(args.gamma, k - 1))

\* C1: when epoch k's training pass runs, exactly k-1 scheduler steps have
\* been made and the optimizer's rate is lr * gamma^(k-1); every optimizer
\* step of epoch k used that rate, from the first batch to the last.
C1_RateOfEpoch ==
    /\ pc = "train" =>
         /\ sched_steps = epoch - 1
         /\ FracEq(lr, RateOfEpoch(epoch))
    /\ (opt_steps > 0 /\ pc \in {"train", "test_start", "test", "test_final", "sched"}) =>
         FracEq(step_lr, RateOfEpoch(epoch))

C1_Witness ==
    /\ pc = "train"
    /\ epoch = 2
    /\ opt_steps >= 1
    /\ pos < Len(order)
    /\ args.gamma.num # args.gamma.den

\* C2: with dry_run, and log_interval >= 1, a training pass takes exactly
\* one optimizer step, whatever the batch size and the size of the split.
C2_DryRunOneBatch ==
    (args.dry_run /\ args.log_interval >= 1) =>
        /\ pc = "train" => opt_steps = 0
        /\ pc \in {"test_start", "test", "test_final", "sched"} =>
             opt_steps = 1 /\ batch_idx = 1

C2_Witness ==
    /\ args.dry_run
    /\ args.log_interval = 2
    /\ pc = "test_start"
    /\ NumBatches(train_loader) >= 2
    /\ opt_steps = 1

\* C3: the summary of an evaluation pass over N samples reports as correct
\* the number of samples predicted correctly, each sample evaluated once,
\* and divides the loss sum and 100 * correct by N, for every batch size.
C3_EvalTotals ==
    pc = "sched" =>
        /\ out.type = "test"
        /\ \A s \in DOMAIN seen : seen[s] = 1
        /\ out.correct = Cardinality(hits)
        /\ out.avg_loss.num = test_loss
        /\ out.avg_loss.den = test_loader.n
        /\ out.pct.num = 100 * Cardinality(hits)
        /\ out.pct.den = test_loader.n

C3_Witness ==
    /\ pc = "sched"
    /\ test_loader.n % test_loader.batch_size # 0
    /\ NumBatches(test_loader) >= 2
    /\ hits # {}
    /\ Cardinality(hits) < test_loader.n
    /\ test_loss > 0

\* C4: the evaluation loader yields the samples in dataset order in every
\* pass, with the accelerator or without it.
C4_EvalOrderFixed ==
    pc \in {"test", "test_final"} => order = DatasetOrder(test_loader.n)

\* C5: the loader a training pass iterates is built with shuffling enabled,
\* with the accelerator or without it.
C5_TrainShuffled == pc = "train" => train_loader.shuffle = TRUE

\* C6: torch.save is called at most once, only with save_model, and only
\* when every epoch's training pass, evaluation pass and scheduler step is
\* done; a failed run has saved nothing, and so has a run without save_model.
C6_SaveOnlyAtEnd ==
    /\ saves <= 1
    /\ saves = 1 =>
         /\ args.save_model
         /\ pc = "done"
         /\ train_done = args.epochs
         /\ test_done = args.epochs
         /\ sched_steps = args.epochs
    /\ pc = "failed" => saves = 0
    /\ (pc = "done" /\ ~args.save_model) => saves = 0

C6_Witness ==
    /\ saves = 1
    /\ args.epochs >= 2
    /\ NumBatches(train_loader) >= 2

\* the passes and scheduler steps made when the program is at pc in epoch
\* `epoch`: each epoch's training pass, then its evaluation pass, then its
\* scheduler step
EpochOrder ==
    /\ pc \in {"epoch_loop", "train"} =>
         /\ train_done = epoch - 1
         /\ test_done = epoch - 1
         /\ sched_steps = epoch - 1
    /\ pc = "train" => epoch <= args.epochs
    /\ pc \in {"test_start", "test", "test_final"} =>
         /\ train_done = epoch
         /\ test_done = epoch - 1
         /\ sched_steps = epoch - 1
    /\ pc = "sched" =>
         /\ train_done = epoch
         /\ test_done = epoch
         /\ sched_steps = epoch - 1
    /\ pc = "done" =>
         /\ epoch = args.epochs + 1
         /\ train_done = args.epochs
         /\ test_done = args.epochs
         /\ sched_steps = args.epochs

\* C7: epochs 1..epochs run in order, each one training pass, then one
\* evaluation pass, then one scheduler step; the next training pass starts
\* after the scheduler step; the run ends done unless it failed.
C7_EpochSequence == [](EpochOrder) /\ <>(pc \in {"done", "failed"})

C7_Witness ==
    /\ pc = "done"
    /\ args.epochs = 2
    /\ train_done = 2
    /\ NumBatches(train_loader) >= 2

\* C8: during an evaluation pass the correct count lies between 0 and the
\* number of samples evaluated so far, which never exceeds the size of the
\* split, and the accuracy of the summary lies in [0, 100].
C8_CorrectBounded ==
    /\ pc \in {"test", "test_final", "sched"} =>
         /\ 0 <= correct
         /\ correct <= pos
         /\ pos <= test_loader.n
    /\ pc = "sched" =>
         /\ out.pct.den > 0
         /\ 0 <= out.pct.num
         /\ out.pct.num <= 100 * out.pct.den

C8_Witness ==
    /\ pc = "test"
    /\ pos >= 2
    /\ correct = pos

\* C9: an evaluation pass ends only when every batch of the split has been
\* processed, every sample once, with dry_run as without.
C9_EvalRunsInFull ==
    pc \in {"test_final", "sched"} =>
        /\ test_batches = NumBatches(test_loader)
        /\ pos = test_loader.n
        /\ \A s \in DOMAIN seen : seen[s] = 1

C9_Witness ==
    /\ args.dry_run
    /\ pc = "sched"
    /\ NumBatches(train_loader) >= 2
    /\ batch_idx = 1
    /\ test_batches >= 2

\* C10: training batch i prints a progress line exactly when
\* i % log_interval = 0, and the line's sample count is the number of samples
\* in batches 0..i-1, also for a last batch shorter than batch_size.
C10_ProgressLog ==
    (pc \in {"train", "test_start"} /\ batch_idx > 0) =>
        /\ (out.type = "train") <=> ((batch_idx - 1) % args.log_interval = 0)
        /\ out.type = "train" => out.samples = prev_pos

====
